---- MODULE Spec2Model ----
(***************************************************************************)
(* A model of anime.py: the proxied fetcher, the Jikan catalog enumerator, *)
(* the detail resolver, the HiAnime matcher, the episode lister, the JSON  *)
(* writer and the run loop.  Each component has its own specification      *)
(* over its own variables; the variables of the other components idle.     *)
(***************************************************************************)
EXTENDS Integers, Sequences, FiniteSets, TLC

\* ---------------------------------------------------------------- bounds
MaxRetries == 3
MaxDelay == 2
MaxCatalog == 55
MaxLimit == 55
MaxQueryLen == 2
MaxAnchors == 2
MaxEpAnchors == 3
MaxEntries == 2

\* ------------------------------------------------------ program constants
PageSize == 25
DefaultRetries == 3
DefaultDelay == 2

\* ------------------------------------------------------------ python values
\* Python's None where a str (a tuple of characters) may stand.
NoneV == <<"None">>

SetMin(S) == CHOOSE x \in S : \A y \in S : x <= y
SetMax(S) == CHOOSE x \in S : \A y \in S : x >= y

\* str.lower() on one character of the model's alphabet.
LowerChar(c) == CASE c = "A" -> "a"
                  [] c = "B" -> "b"
                  [] c = "C" -> "c"
                  [] OTHER -> c

\* str.lower()
Lower(s) == [i \in 1..Len(s) |-> LowerChar(s[i])]

\* str.strip(): leading and trailing whitespace removed.
Strip(s) ==
    LET keep == {i \in 1..Len(s) : s[i] # " "}
    IN  IF keep = {} THEN <<>> ELSE SubSeq(s, SetMin(keep), SetMax(keep))

\* str.replace(' ', '_')
ReplaceSpaces(s) == [i \in 1..Len(s) |-> IF s[i] = " " THEN "_" ELSE s[i]]

DigitChar(d) == CASE d = 0 -> "0" [] d = 1 -> "1" [] d = 2 -> "2" [] d = 3 -> "3"
                  [] d = 4 -> "4" [] d = 5 -> "5" [] d = 6 -> "6" [] d = 7 -> "7"
                  [] d = 8 -> "8" [] OTHER -> "9"

\* str(n) of a non-negative int, as the f-string formats mal_id.
RECURSIVE IntToStr(_)
IntToStr(n) == IF n < 10 THEN <<DigitChar(n)>>
               ELSE IntToStr(n \div 10) \o <<DigitChar(n % 10)>>

Digits == {"0", "1", "2", "3", "4", "5", "6", "7", "8", "9"}

DigitVal(c) == CHOOSE d \in 0..9 : DigitChar(d) = c

RECURSIVE DecimalValue(_)
DecimalValue(s) == IF s = <<>> THEN 0
                   ELSE 10 * DecimalValue(SubSeq(s, 1, Len(s) - 1)) + DigitVal(s[Len(s)])

\* int(s) of a str: surrounding whitespace is ignored, anything but decimal
\* digits raises ValueError.
PyInt(s) ==
    LET t == Strip(s)
    IN  IF t = <<>> \/ \E i \in 1..Len(t) : t[i] \notin Digits
        THEN [ok |-> FALSE, val |-> 0]
        ELSE [ok |-> TRUE, val |-> DecimalValue(t)]

VARIABLES
    \* proxy_get
    retries, delay, attempt, gets, slept, plog, presult, ppc,
    \* fetch_all_anime
    limit, catalogSize, page, anime_list, elog, epc,
    \* resolve_hianime_id
    query, html, minfo, mpc,
    \* fetch_episode_list
    eptxt, epresult, eppc,
    \* the run loop and fetch_full_anime
    all_anime, idx, run, fs, fs1, responses, outcome, rpc

proxyVars == <<retries, delay, attempt, gets, slept, plog, presult, ppc>>
enumVars == <<limit, catalogSize, page, anime_list, elog, epc>>
matchVars == <<query, html, minfo, mpc>>
epVars == <<eptxt, epresult, eppc>>
runVars == <<all_anime, idx, run, fs, fs1, responses, outcome, rpc>>
vars == <<proxyVars, enumVars, matchVars, epVars, runVars>>

notProxy == <<enumVars, matchVars, epVars, runVars>>
notEnum == <<proxyVars, matchVars, epVars, runVars>>
notMatch == <<proxyVars, enumVars, epVars, runVars>>
notEp == <<proxyVars, enumVars, matchVars, runVars>>
notRun == <<proxyVars, enumVars, matchVars, epVars>>

ProxyIdle ==
    /\ retries = 0 /\ delay = 0 /\ attempt = 0 /\ gets = 0 /\ slept = 0
    /\ plog = <<>> /\ presult = NoneV /\ ppc = "idle"

EnumIdle ==
    /\ limit = 0 /\ catalogSize = 0 /\ page = 0 /\ anime_list = <<>>
    /\ elog = <<>> /\ epc = "idle"

MatchIdle ==
    /\ query = <<>> /\ html = [kind |-> "none"] /\ minfo = [kind |-> "none"]
    /\ mpc = "idle"

EpIdle ==
    /\ eptxt = [kind |-> "none"] /\ epresult = [kind |-> "list", eps |-> <<>>]
    /\ eppc = "idle"

RunIdle ==
    /\ all_anime = <<>> /\ idx = 0 /\ run = 0 /\ fs = {} /\ fs1 = {}
    /\ responses = <<>> /\ outcome = <<>> /\ rpc = "idle"

\* ================================================================ proxy_get
\* The texts a successful GET may carry (the empty body included).
ProxyTexts == {"", "html", "json"}

\* requests.RequestException: a transport failure, or raise_for_status().
FailureKinds == {"transport", "status"}

InitProxy ==
    /\ retries \in 0..MaxRetries
    /\ delay \in 1..MaxDelay
    /\ attempt = 1
    /\ gets = 0
    /\ slept = 0
    /\ plog = <<>>
    /\ presult = NoneV
    /\ ppc = "loop"
    /\ EnumIdle /\ MatchIdle /\ EpIdle /\ RunIdle

\* A mutant of AttemptFails: no delay after the last failed attempt.
AttemptFailsOff ==
    /\ ppc = "loop"
    /\ attempt <= retries
    /\ \E k \in FailureKinds :
         plog' = plog \o (IF attempt < retries
                          THEN <<[ev |-> "get", n |-> attempt, out |-> k],
                                 [ev |-> "sleep", n |-> attempt, out |-> k]>>
                          ELSE <<[ev |-> "get", n |-> attempt, out |-> k]>>)
    /\ gets' = gets + 1
    /\ slept' = slept + (IF attempt < retries THEN delay ELSE 0)
    /\ attempt' = attempt + 1
    /\ UNCHANGED <<retries, delay, presult, ppc, notProxy>>

\* One iteration whose GET raises RequestException: print, sleep(delay).
AttemptFails ==
    /\ ppc = "loop"
    /\ attempt <= retries
    /\ \E k \in FailureKinds :
         plog' = plog \o <<[ev |-> "get", n |-> attempt, out |-> k],
                           [ev |-> "sleep", n |-> attempt, out |-> k]>>
    /\ gets' = gets + 1
    /\ slept' = slept + delay
    /\ attempt' = attempt + 1
    /\ UNCHANGED <<retries, delay, presult, ppc, notProxy>>

\* One iteration whose GET succeeds: return res.text.
AttemptSucceeds ==
    /\ ppc = "loop"
    /\ attempt <= retries
    /\ \E t \in ProxyTexts :
         /\ presult' = <<t>>
         /\ plog' = Append(plog, [ev |-> "get", n |-> attempt, out |-> "ok"])
    /\ gets' = gets + 1
    /\ ppc' = "done"
    /\ UNCHANGED <<retries, delay, attempt, slept, notProxy>>

\* range(1, retries + 1) is exhausted: print, return None.
Exhausted ==
    /\ ppc = "loop"
    /\ attempt > retries
    /\ presult' = NoneV
    /\ ppc' = "done"
    /\ UNCHANGED <<retries, delay, attempt, gets, slept, plog, notProxy>>

NextProxy == AttemptFails \/ AttemptSucceeds \/ Exhausted

SpecProxy == InitProxy /\ [][NextProxy]_vars

\* C5: when proxy_get has returned, either every one of the `retries` attempts
\* failed, exactly `retries` GETs were issued, each followed by the fixed delay,
\* and the result is None; or the result is the text of attempt k, the first to
\* succeed, exactly k GETs were issued and k-1 delays waited.  It never issues
\* more than `retries` GETs.
C5_BoundedRetry ==
    /\ gets <= retries
    /\ ppc = "done" =>
         LET getEvents == SelectSeq(plog, LAMBDA e : e.ev = "get")
             sleepEvents == SelectSeq(plog, LAMBDA e : e.ev = "sleep")
         IN  /\ Len(getEvents) = gets
             /\ \A i \in 1..gets : getEvents[i].n = i
             /\ IF presult = NoneV
                THEN /\ gets = retries
                     /\ \A i \in 1..gets : getEvents[i].out \in FailureKinds
                     /\ Len(sleepEvents) = retries
                     /\ slept = retries * delay
                     /\ \A i \in 1..Len(plog) :
                          plog[i].ev = "get" =>
                            /\ i < Len(plog)
                            /\ plog[i + 1].ev = "sleep"
                ELSE /\ gets \in 1..retries
                     /\ plog[Len(plog)] = [ev |-> "get", n |-> gets, out |-> "ok"]
                     /\ \A i \in 1..(gets - 1) : getEvents[i].out \in FailureKinds
                     /\ Len(sleepEvents) = gets - 1
                     /\ slept = (gets - 1) * delay
                     /\ presult[1] \in ProxyTexts

\* The default call: three failures, three GETs, three delays of 2, None.
C5_Witness ==
    /\ ppc = "done"
    /\ retries = DefaultRetries
    /\ delay = DefaultDelay
    /\ presult = NoneV
    /\ gets = DefaultRetries
    /\ slept = DefaultRetries * DefaultDelay

\* ========================================================== fetch_all_anime
\* The catalog the Jikan API serves: N records in ascending mal_id order
\* (order_by=mal_id), each with more fields than the enumerator keeps.
CatalogRecord(i) ==
    [mal_id |-> 2 * i - 1, title |-> IntToStr(i), type |-> "TV"]

\* The data list of page p (limit=25) of a catalog of n records.
CatalogPage(n, p) ==
    LET first == (p - 1) * PageSize + 1
        last == IF p * PageSize < n THEN p * PageSize ELSE n
    IN  [k \in 1..(IF last >= first THEN last - first + 1 ELSE 0) |->
            CatalogRecord(first + k - 1)]

\* {"mal_id": a["mal_id"], "title": a["title"]} for each record of a page.
ProjectPage(data) ==
    [k \in 1..Len(data) |-> [mal_id |-> data[k].mal_id, title |-> data[k].title]]

InitEnum ==
    /\ limit \in 1..MaxLimit
    /\ catalogSize \in 0..MaxCatalog
    /\ page = 1
    /\ anime_list = <<>>
    /\ elog = <<>>
    /\ epc = "loop"
    /\ ProxyIdle /\ MatchIdle /\ EpIdle /\ RunIdle

\* requests.get(url).json() raises: print, break.
PageFails ==
    /\ epc = "loop"
    /\ elog' = Append(elog, [ev |-> "get", page |-> page, out |-> "fail"])
    /\ epc' = "done"
    /\ UNCHANGED <<limit, catalogSize, page, anime_list, notEnum>>

\* The response has no "data" field: break.
PageNoData ==
    /\ epc = "loop"
    /\ elog' = Append(elog, [ev |-> "get", page |-> page, out |-> "nodata"])
    /\ epc' = "done"
    /\ UNCHANGED <<limit, catalogSize, page, anime_list, notEnum>>

\* The response's data list is empty (past the end of the catalog): break.
PageEmpty ==
    /\ epc = "loop"
    /\ CatalogPage(catalogSize, page) = <<>>
    /\ elog' = Append(elog, [ev |-> "get", page |-> page, out |-> "empty"])
    /\ epc' = "done"
    /\ UNCHANGED <<limit, catalogSize, page, anime_list, notEnum>>

\* A mutant of PageAppended: sleeps before testing the limit.
PageAppendedSleepFirst ==
    /\ epc = "loop"
    /\ CatalogPage(catalogSize, page) # <<>>
    /\ anime_list' = anime_list \o ProjectPage(CatalogPage(catalogSize, page))
    /\ page' = page + 1
    /\ elog' = elog \o <<[ev |-> "get", page |-> page, out |-> "data"],
                         [ev |-> "sleep", page |-> page, out |-> "data"]>>
    /\ epc' = IF Len(anime_list') >= limit THEN "done" ELSE "loop"
    /\ UNCHANGED <<limit, catalogSize, notEnum>>

\* The response carries a non-empty data list: append every record's
\* projection, page += 1, break once len(anime_list) >= limit, else sleep(1).
PageAppended ==
    /\ epc = "loop"
    /\ CatalogPage(catalogSize, page) # <<>>
    /\ anime_list' = anime_list \o ProjectPage(CatalogPage(catalogSize, page))
    /\ page' = page + 1
    /\ IF Len(anime_list') >= limit
       THEN /\ elog' = Append(elog, [ev |-> "get", page |-> page, out |-> "data"])
            /\ epc' = "done"
       ELSE /\ elog' = elog \o <<[ev |-> "get", page |-> page, out |-> "data"],
                                 [ev |-> "sleep", page |-> page, out |-> "data"]>>
            /\ epc' = "loop"
    /\ UNCHANGED <<limit, catalogSize, notEnum>>

NextEnum == PageFails \/ PageNoData \/ PageEmpty \/ PageAppended

SpecEnum == InitEnum /\ [][NextEnum]_vars

\* The "get" events of the enumerator's log, in order.
EnumGets == SelectSeq(elog, LAMBDA e : e.ev = "get")

\* The projections of pages 1..k of a catalog of n records, concatenated.
RECURSIVE ConcatPages(_, _)
ConcatPages(n, k) ==
    IF k = 0 THEN <<>>
    ELSE ConcatPages(n, k - 1) \o ProjectPage(CatalogPage(n, k))

\* C1: when no request failed and the limit is at most the catalog size,
\* fetch_all_anime returns exactly min(limit, catalog size) entries, in
\* ascending mal_id order, with no duplicates.
C1_ExactCount ==
    (/\ epc = "done"
     /\ limit <= catalogSize
     /\ \A i \in 1..Len(elog) : elog[i].out \notin {"fail", "nodata"})
    => /\ Len(anime_list) = (IF limit <= catalogSize THEN limit ELSE catalogSize)
       /\ \A i, j \in 1..Len(anime_list) :
            i < j => anime_list[i].mal_id < anime_list[j].mal_id

\* C10: pages are requested as 1, 2, 3, ..., each once, with one pause between
\* two consecutive requests and none after the last; the loop ends at the first
\* request that fails, carries no data field or an empty list, or that brings
\* the count to the limit; the list held (and returned) is always the
\* concatenation of the pages fetched successfully so far.
C10_Termination ==
    LET g == EnumGets
        ok == Len(SelectSeq(g, LAMBDA e : e.out = "data"))
    IN  /\ \A i \in 1..Len(g) : g[i].page = i
        /\ \A i \in 1..(Len(elog) - 1) :
             /\ elog[i].ev = "get" => elog[i + 1].ev = "sleep"
             /\ elog[i].ev = "sleep" => elog[i + 1].ev = "get"
        /\ elog # <<>> => elog[1].ev = "get"
        /\ anime_list = ConcatPages(catalogSize, ok)
        /\ \A i \in 1..(Len(g) - 1) :
             /\ g[i].out = "data"
             /\ Len(ConcatPages(catalogSize, i)) < limit
        /\ epc = "loop" =>
             /\ page = Len(g) + 1
             /\ ok = Len(g)
             /\ Len(anime_list) < limit
             /\ elog # <<>> => elog[Len(elog)].ev = "sleep"
        /\ epc = "done" =>
             /\ g # <<>>
             /\ elog[Len(elog)].ev = "get"
             /\ \/ g[Len(g)].out \in {"fail", "nodata", "empty"} /\ ok = Len(g) - 1
                \/ g[Len(g)].out = "data" /\ Len(anime_list) >= limit
             /\ g[Len(g)].out = "empty" => CatalogPage(catalogSize, Len(g)) = <<>>

\* A failure on page 3 returns the 50 entries of pages 1 and 2.
C10_Witness ==
    /\ epc = "done"
    /\ Len(EnumGets) = 3
    /\ EnumGets[3].out = "fail"
    /\ Len(anime_list) = 2 * PageSize

\* ======================================================= resolve_hianime_id
\* What proxy_get hands back: None, an empty body, or a page whose
\* a.film-poster-ahref anchors are listed in document order.
NoContent == [kind |-> "none"]
EmptyBody == [kind |-> "empty"]
SearchPage(anchors) == [kind |-> "page", anchors |-> anchors]

NoMatch == [kind |-> "none"]
RaisedInfo == [kind |-> "raised"]

\* The poster URL of an <img data-src=...>.
PosterUrl == <<"p">>

\* The dict built for the matching anchor a: a.get("title").strip() raises on
\* a missing title, a.select_one("img")["data-src"] raises on an <img> that has
\* no data-src.
MatchInfo(a) ==
    IF a.title = NoneV \/ a.img = "nosrc"
    THEN RaisedInfo
    ELSE [kind |-> "match",
          id |-> a.data_id,
          title |-> Strip(a.title),
          poster |-> IF a.img = "src" THEN PosterUrl ELSE NoneV]

\* (a.get("title") or "").strip().lower()
AnchorKey(a) == Lower(Strip(IF a.title = NoneV THEN <<>> ELSE a.title))

\* for a in anchors: if t == q: return {...}; after the loop, return None.
RECURSIVE ScanAnchors(_, _, _)
ScanAnchors(anchors, q, i) ==
    IF i > Len(anchors) THEN NoMatch
    ELSE IF AnchorKey(anchors[i]) = q THEN MatchInfo(anchors[i])
    ELSE ScanAnchors(anchors, q, i + 1)

\* resolve_hianime_id(query) when proxy_get returned h.
ResolveHianimeId(h, qry) ==
    IF h.kind # "page" THEN NoMatch
    ELSE ScanAnchors(h.anchors, Lower(Strip(qry)), 1)

MatchChars == {"a", "A", " ", "!"}

\* The strings over an alphabet of at most n characters.
StringsUpTo(chars, n) == UNION {[1..k -> chars] : k \in 0..n}

SeqsUpTo(S, n) == UNION {[1..k -> S] : k \in 0..n}

MatchAnchors ==
    [title : {NoneV} \cup StringsUpTo(MatchChars, MaxQueryLen),
     data_id : {<<"1">>, <<"2">>},
     img : {"none", "src", "nosrc"}]

InitMatch ==
    /\ query \in StringsUpTo(MatchChars, MaxQueryLen) \ {<<>>}
    /\ html \in {NoContent, EmptyBody}
                  \cup {SearchPage(as) : as \in SeqsUpTo(MatchAnchors, MaxAnchors)}
    /\ minfo = NoMatch
    /\ mpc = "call"
    /\ ProxyIdle /\ EnumIdle /\ EpIdle /\ RunIdle

Resolve ==
    /\ mpc = "call"
    /\ minfo' = ResolveHianimeId(html, query)
    /\ mpc' = "done"
    /\ UNCHANGED <<query, html, notMatch>>

NextMatch == Resolve

SpecMatch == InitMatch /\ [][NextMatch]_vars

\* The anchors whose title, trimmed and lowercased, equals the trimmed and
\* lowercased query.
C7_Hits ==
    IF html.kind # "page" THEN {}
    ELSE {i \in 1..Len(html.anchors) :
            /\ html.anchors[i].title # NoneV
            /\ Lower(Strip(html.anchors[i].title)) = Lower(Strip(query))}

\* C7: resolve_hianime_id returns the first anchor in document order whose
\* trimmed, lowercased title equals the trimmed, lowercased query, and returns
\* no match when there is none (or no content was fetched).
C7_FirstExactMatch ==
    mpc = "done" =>
        IF C7_Hits = {}
        THEN minfo = NoMatch
        ELSE LET a == html.anchors[SetMin(C7_Hits)]
             IN  /\ minfo.kind = "match"
                 /\ minfo.id = a.data_id
                 /\ minfo.title = Strip(a.title)

\* ======================================================= fetch_episode_list
RaisedEps == [kind |-> "raised", eps |-> <<>>]
EpList(eps) == [kind |-> "list", eps |-> eps]

\* int(a.get("data-number") or 0): a missing or empty attribute gives 0, any
\* other string goes through int().
EpisodeNumber(a) ==
    IF a.data_number = NoneV \/ a.data_number = <<>>
    THEN [ok |-> TRUE, val |-> 0]
    ELSE PyInt(a.data_number)

\* The dict appended for one a.ssl-item.ep-item anchor.
EpisodeEntry(a) ==
    [episodeId |-> a.data_id,
     number |-> EpisodeNumber(a).val,
     title |-> IF a.ep_name = NoneV THEN <<>> ELSE Strip(a.ep_name),
     streaming |-> <<"https://megaplay.buzz/stream/s-2/">> \o a.data_id \o <<"/sub">>]

\* One step of sorted(eps, key=number), which is stable: e goes after every
\* entry whose number is not greater.
InsertByNumber(sorted, e) ==
    LET k == Cardinality({i \in 1..Len(sorted) : sorted[i].number <= e.number})
    IN  SubSeq(sorted, 1, k) \o <<e>> \o SubSeq(sorted, k + 1, Len(sorted))

RECURSIVE SortedByNumber(_)
SortedByNumber(eps) ==
    IF eps = <<>> THEN <<>>
    ELSE InsertByNumber(SortedByNumber(SubSeq(eps, 1, Len(eps) - 1)), eps[Len(eps)])

\* fetch_episode_list when proxy_get returned txt: None or an empty body, text
\* that is not JSON, JSON that is not an object (data.get raises), or an object
\* with a status flag and an html fragment.
FetchEpisodeList(txt) ==
    IF txt.kind \in {"none", "empty", "badjson"} THEN EpList(<<>>)
    ELSE IF txt.kind = "notobject" THEN RaisedEps
    ELSE IF ~txt.status \/ ~txt.has_html THEN EpList(<<>>)
    ELSE IF \E i \in 1..Len(txt.anchors) : ~EpisodeNumber(txt.anchors[i]).ok
    THEN RaisedEps
    ELSE EpList(SortedByNumber([i \in 1..Len(txt.anchors) |->
                                   EpisodeEntry(txt.anchors[i])]))

EpChars == {"1", "2", "x"}

EpAnchors ==
    [data_id : {<<"e">>, <<"f">>},
     data_number : {NoneV} \cup StringsUpTo(EpChars, 2),
     ep_name : {NoneV, <<" ", "n">>}]

\* The payloads of the episode endpoint; has_html is false for an object with
\* no (or an empty) html field.
EpPayload(kind, status, has_html, anchors) ==
    [kind |-> kind, status |-> status, has_html |-> has_html, anchors |-> anchors]

InitEp ==
    /\ eptxt \in {EpPayload(k, FALSE, FALSE, <<>>) :
                    k \in {"none", "empty", "badjson", "notobject"}}
                 \cup {EpPayload("object", st, FALSE, <<>>) : st \in BOOLEAN}
                 \cup {EpPayload("object", st, TRUE, as) :
                         st \in BOOLEAN, as \in SeqsUpTo(EpAnchors, MaxEpAnchors)}
    /\ epresult = EpList(<<>>)
    /\ eppc = "call"
    /\ ProxyIdle /\ EnumIdle /\ MatchIdle /\ RunIdle

ListEpisodes ==
    /\ eppc = "call"
    /\ epresult' = FetchEpisodeList(eptxt)
    /\ eppc' = "done"
    /\ UNCHANGED <<eptxt, notEp>>

NextEp == ListEpisodes

SpecEp == InitEp /\ [][NextEp]_vars

\* The episode number the claim gives an anchor: its integer, or 0 when the
\* attribute is missing or does not parse.
C6_Number(a) ==
    IF a.data_number = NoneV \/ ~PyInt(a.data_number).ok THEN 0
    ELSE PyInt(a.data_number).val

\* C6: for every markup fragment, the result is a list with one entry per
\* episode anchor, ascending by number, where an anchor whose number is missing
\* or unparseable carries number 0; no fragment makes the call fail.
C6_SortedWithDefaults ==
    (eppc = "done" /\ eptxt.kind = "object" /\ eptxt.status /\ eptxt.has_html)
    => LET as == eptxt.anchors
           eps == epresult.eps
       IN  /\ epresult.kind = "list"
           /\ Len(eps) = Len(as)
           /\ \A i, j \in 1..Len(eps) : i < j => eps[i].number <= eps[j].number
           /\ \A i \in 1..Len(as) :
                Cardinality({j \in 1..Len(eps) :
                               /\ eps[j].episodeId = as[i].data_id
                               /\ eps[j].number = C6_Number(as[i])})
                = Cardinality({j \in 1..Len(as) :
                                 /\ as[j].data_id = as[i].data_id
                                 /\ C6_Number(as[j]) = C6_Number(as[i])})

\* ====================================================== fetch_jikan_details
NoMeta == [kind |-> "none", mal_id |-> 0, title |-> <<>>, images |-> <<>>]
RaisedMeta == [kind |-> "raised", mal_id |-> 0, title |-> <<>>, images |-> <<>>]

\* The answer of /anime/{id}/full: a failed request (or a body without
\* "data"), or a record whose title_english, title and images may be absent.
DetailFailure == [kind |-> "fail", title_english |-> NoneV, title |-> NoneV, images |-> FALSE]
DetailRecord(te, t, img) ==
    [kind |-> "record", title_english |-> te, title |-> t, images |-> img]

\* fetch_jikan_details(mal_id) on answer d: None when the request fails;
\* details["title"] raises KeyError when title_english is falsy and title is
\* absent, details["images"]["jpg"] raises KeyError when images is absent.
FetchJikanDetails(mal_id, d) ==
    IF d.kind = "fail" THEN NoMeta
    ELSE IF d.title_english \in {NoneV, <<>>} /\ d.title = NoneV THEN RaisedMeta
    ELSE IF ~d.images THEN RaisedMeta
    ELSE [kind |-> "meta",
          mal_id |-> mal_id,
          title |-> IF d.title_english \in {NoneV, <<>>} THEN d.title
                    ELSE d.title_english,
          images |-> <<"jpg">>]

\* ================================================================ save_json
\* json.dump(data, f, indent=2, ensure_ascii=False) of a dict or of a list.
JsonDumpObject(meta) == [doc |-> "object", indent |-> 2, meta |-> meta, eps |-> <<>>]
JsonDumpArray(eps) == [doc |-> "array", indent |-> 2, meta |-> NoMeta, eps |-> eps]

\* A mutant of SaveJson: the file is opened in append mode.
SaveJsonAppend(files, text, folder, filename) ==
    LET old == {f \in files : f.folder = folder /\ f.file = filename}
        before == IF old = {} THEN <<>> ELSE (CHOOSE f \in old : TRUE).content
    IN  (files \ old)
          \cup {[folder |-> folder, file |-> filename, content |-> Append(before, text)]}

\* save_json: makedirs(folder, exist_ok=True), then open(path, "w") and dump:
\* the file holds the dumped text and nothing else.
SaveJson(files, text, folder, filename) ==
    LET old == {f \in files : f.folder = folder /\ f.file = filename}
    IN  (files \ old)
          \cup {[folder |-> folder, file |-> filename, content |-> <<text>>]}

\* ========================================================= fetch_full_anime
OUTPUT_DIR == <<"anime_data", "/">>

\* f"{meta['title'].replace(' ', '_')}-{id}", joined to OUTPUT_DIR.
FolderOf(title, id) == OUTPUT_DIR \o ReplaceSpaces(title) \o <<"-">> \o id

\* What one call fetch_full_anime(mal_id, title) does when the detail request
\* is answered r.det, the search r.search and the episode request r.eps: the
\* values it computes, whether it raised, and the files after it.
FetchFullAnime(files, mal_id, r) ==
    LET meta == FetchJikanDetails(mal_id, r.det)
        info == IF meta.kind = "meta" THEN ResolveHianimeId(r.search, meta.title)
                ELSE NoMatch
        called == meta.kind = "meta" /\ info.kind = "match"
        listed == IF called THEN FetchEpisodeList(r.eps) ELSE EpList(<<>>)
        raised == \/ meta.kind = "raised"
                  \/ info.kind = "raised"
                  \/ listed.kind = "raised"
        saved == meta.kind = "meta" /\ ~raised
        folder == IF ~saved THEN <<>>
                  ELSE IF info.kind = "match" THEN FolderOf(meta.title, info.id)
                  ELSE FolderOf(meta.title, IntToStr(mal_id))
        withMeta == IF saved
                    THEN SaveJson(files, JsonDumpObject(meta), folder, "meta.json")
                    ELSE files
        withEps == IF saved /\ listed.eps # <<>>
                   THEN SaveJson(withMeta, JsonDumpArray(listed.eps), folder,
                                 "episodes.json")
                   ELSE withMeta
    IN  [mal_id |-> mal_id,
         resolved |-> meta.kind = "meta",
         meta |-> meta,
         matched |-> info.kind = "match",
         info |-> info,
         lister_called |-> called,
         lister_arg |-> IF called THEN info.id ELSE NoneV,
         episodes |-> listed.eps,
         raised |-> raised,
         folder |-> folder,
         wrote_meta |-> saved,
         wrote_eps |-> saved /\ listed.eps # <<>>,
         files |-> withEps]

\* ================================================================= the run
TitleOne == <<"A", " ", "b">>
TitleTwo == <<"c">>

RunDetails ==
    {DetailFailure,
     DetailRecord(NoneV, NoneV, TRUE),
     DetailRecord(NoneV, TitleOne, FALSE),
     DetailRecord(NoneV, TitleOne, TRUE),
     DetailRecord(TitleTwo, TitleOne, TRUE)}

Anchor(t, id, img) == [title |-> t, data_id |-> id, img |-> img]

RunSearches ==
    {NoContent,
     SearchPage(<<>>),
     SearchPage(<<Anchor(<<"a", " ", "b", "!">>, <<"7">>, "src"),
                  Anchor(<<"a", " ", "b", " ">>, <<"3">>, "src"),
                  Anchor(<<"c">>, <<"7">>, "none")>>),
     SearchPage(<<Anchor(<<"A", " ", "b">>, <<"7">>, "nosrc"),
                  Anchor(<<"C">>, <<"3">>, "src")>>)}

EpAnchor(id, num) == [data_id |-> id, data_number |-> num, ep_name |-> <<"n">>]

NoEpisodes == EpPayload("none", FALSE, FALSE, <<>>)

RunEpisodes ==
    {NoEpisodes,
     EpPayload("badjson", FALSE, FALSE, <<>>),
     EpPayload("notobject", FALSE, FALSE, <<>>),
     EpPayload("object", TRUE, TRUE,
               <<EpAnchor(<<"e">>, <<"3">>), EpAnchor(<<"f">>, <<"1">>),
                 EpAnchor(<<"g">>, <<"2">>)>>),
     EpPayload("object", TRUE, TRUE, <<EpAnchor(<<"e">>, <<"x">>)>>)}

\* The answers one entry's processing consumes; an answer it never asks for
\* is left at its first value.
RunResponses(mal_id) ==
    {r \in [det : RunDetails, search : RunSearches, eps : RunEpisodes] :
        LET o == FetchFullAnime({}, mal_id, r)
        IN  /\ ~o.resolved => r.search = NoContent
            /\ ~o.lister_called => r.eps = NoEpisodes}

InitRun ==
    /\ \E n \in 1..MaxEntries : all_anime = ProjectPage(CatalogPage(n, 1))
    /\ idx = 1
    /\ run = 1
    /\ fs = {}
    /\ fs1 = {}
    /\ responses = <<>>
    /\ outcome = <<>>
    /\ rpc = "loop"
    /\ ProxyIdle /\ EnumIdle /\ MatchIdle /\ EpIdle

\* One iteration of the run loop in which fetch_full_anime returns: the next
\* entry is processed, its files are written, sleep(1).
EntryReturns ==
    /\ rpc = "loop"
    /\ idx <= Len(all_anime)
    /\ \E r \in RunResponses(all_anime[idx].mal_id) :
         LET o == FetchFullAnime(fs, all_anime[idx].mal_id, r)
         IN  /\ run = 2 => r = responses[idx]
             /\ ~o.raised
             /\ fs' = o.files
             /\ outcome' = Append(outcome, [o EXCEPT !.files = {}])
             /\ responses' = IF run = 1 THEN Append(responses, r) ELSE responses
    /\ idx' = idx + 1
    /\ rpc' = IF idx = Len(all_anime) THEN "done" ELSE "loop"
    /\ UNCHANGED <<all_anime, run, fs1, notRun>>

\* One iteration in which fetch_full_anime raises: nothing in the loop catches
\* it, the run ends with the traceback.
EntryRaises ==
    /\ rpc = "loop"
    /\ idx <= Len(all_anime)
    /\ \E r \in RunResponses(all_anime[idx].mal_id) :
         LET o == FetchFullAnime(fs, all_anime[idx].mal_id, r)
         IN  /\ run = 2 => r = responses[idx]
             /\ o.raised
             /\ fs' = o.files
             /\ outcome' = Append(outcome, [o EXCEPT !.files = {}])
             /\ responses' = IF run = 1 THEN Append(responses, r) ELSE responses
    /\ rpc' = "crashed"
    /\ UNCHANGED <<all_anime, idx, run, fs1, notRun>>

\* The script is started again, against the same answers.
SecondRun ==
    /\ rpc \in {"done", "crashed"}
    /\ run = 1
    /\ run' = 2
    /\ idx' = 1
    /\ fs1' = fs
    /\ outcome' = <<>>
    /\ rpc' = "loop"
    /\ UNCHANGED <<all_anime, fs, responses, notRun>>

NextRun == EntryReturns \/ EntryRaises \/ SecondRun

SpecRun == InitRun /\ [][NextRun]_vars

\* C2: no failure while processing one entry aborts the run: when the run has
\* ended, every catalog entry has been processed.
C2_FailureIsolation ==
    rpc \in {"done", "crashed"} => Len(outcome) = Len(all_anime)

\* C3: for every processed entry, meta.json is written in an output directory
\* if and only if the detail resolver returned a record for it; with no record
\* nothing at all is written.
C3_OutputIffResolved ==
    \A i \in 1..Len(outcome) :
        /\ outcome[i].resolved <=> outcome[i].wrote_meta
        /\ ~outcome[i].resolved => ~outcome[i].wrote_eps

\* The files of a directory.
FilesIn(folder) == {f.file : f \in {g \in fs : g.folder = folder}}

\* C4: the episode lister is called only on a match and with the match's id;
\* the folder is <title, spaces as underscores>-<secondary-site id> on a match
\* and <title, spaces as underscores>-<catalog id> otherwise; episodes.json is
\* written there exactly when the episode list is not empty; so the directory
\* of an unmatched entry holds meta.json only.
C4_FolderAndEpisodes ==
    \A i \in 1..Len(outcome) :
        LET o == outcome[i]
            name == [k \in 1..Len(o.meta.title) |->
                        IF o.meta.title[k] = " " THEN "_" ELSE o.meta.title[k]]
        IN  /\ o.lister_called => (o.matched /\ o.lister_arg = o.info.id)
            /\ o.wrote_meta =>
                 /\ o.folder = <<"anime_data", "/">> \o name \o <<"-">>
                                 \o (IF o.matched THEN o.info.id ELSE IntToStr(o.mal_id))
                 /\ o.wrote_eps <=> o.episodes # <<>>
                 /\ "meta.json" \in FilesIn(o.folder)
                 /\ o.wrote_eps => "episodes.json" \in FilesIn(o.folder)
                 /\ ~o.matched => FilesIn(o.folder) = {"meta.json"}

\* C8: two distinct catalog entries that were both written have distinct
\* directories, so neither overwrites the other's files.
C8_OneDirectoryPerAnime ==
    \A i, j \in 1..Len(outcome) :
        (i # j /\ outcome[i].wrote_meta /\ outcome[j].wrote_meta)
        => outcome[i].folder # outcome[j].folder

\* C9: saving again what a file was saved from leaves every file as it is, and
\* when the script has run a second time against the same answers the output
\* directories and the content of every file are those left by the first run.
C9_Idempotent ==
    /\ \A f \in fs :
         /\ Len(f.content) = 1
         /\ SaveJson(fs, f.content[1], f.folder, f.file) = fs
    /\ (run = 2 /\ rpc \in {"done", "crashed"}) => fs = fs1

\* A second run that rewrote an entry with episodes and one without.
C9_Witness ==
    /\ run = 2
    /\ rpc = "done"
    /\ Len(outcome) = 2
    /\ outcome[1].wrote_eps
    /\ outcome[2].wrote_meta /\ ~outcome[2].wrote_eps
    /\ Cardinality(fs) = 3
    /\ fs = fs1

====
